---- MODULE Spec2Model ----
(***************************************************************************)
(* A model of api_fetcher.py: the fallback loop of main over the primary   *)
(* URL and BACKUP_APIS, fetch_data, parse_response and select_currencies.  *)
(*                                                                         *)
(* Text the program manipulates (URLs, dictionary keys, console input) is  *)
(* a tuple of one-character strings, so that "in", strip, upper and split  *)
(* are computed character by character.  A Python object is a record       *)
(*   [t |-> kind, s |-> text, m |-> items]                                 *)
(* of kind "obj" (a dict: m is the sequence of its items in insertion      *)
(* order, keys unique), "str", "num", "bool", "list" or "null"; for every  *)
(* kind but "obj", s is the text str() gives and m is empty.               *)
(***************************************************************************)
EXTENDS Integers, Sequences, FiniteSets, TLC

(* Bounds of the model *)

\* how many rejected currency selections a run may contain
MaxPrompts == 2

\* how many entries a generated data.rates object may have
MaxRates == 2

(* Configuration, lines 11-19 *)

\* BACKUP_APIS, in the order of the source list:
\*   https://api.coindesk.com/v2/bpi/currentprice.json
\*   https://api.coingecko.com/api/v3/simple/price?ids=bitcoin&vs_currencies=usd,eur,gbp,jpy,cny
\*   https://blockchain.info/ticker
\*   https://api.coinbase.com/v2/exchange-rates?currency=BTC
BACKUP_APIS ==
  << << "h", "t", "t", "p", "s", ":", "/", "/", "a", "p", "i", ".", "c", "o",
        "i", "n", "d", "e", "s", "k", ".", "c", "o", "m", "/", "v", "2", "/",
        "b", "p", "i", "/", "c", "u", "r", "r", "e", "n", "t", "p", "r", "i",
        "c", "e", ".", "j", "s", "o", "n" >>,
     << "h", "t", "t", "p", "s", ":", "/", "/", "a", "p", "i", ".", "c", "o",
        "i", "n", "g", "e", "c", "k", "o", ".", "c", "o", "m", "/", "a", "p",
        "i", "/", "v", "3", "/", "s", "i", "m", "p", "l", "e", "/", "p", "r",
        "i", "c", "e", "?", "i", "d", "s", "=", "b", "i", "t", "c", "o", "i",
        "n", "&", "v", "s", "_", "c", "u", "r", "r", "e", "n", "c", "i", "e",
        "s", "=", "u", "s", "d", ",", "e", "u", "r", ",", "g", "b", "p", ",",
        "j", "p", "y", ",", "c", "n", "y" >>,
     << "h", "t", "t", "p", "s", ":", "/", "/", "b", "l", "o", "c", "k", "c",
        "h", "a", "i", "n", ".", "i", "n", "f", "o", "/", "t", "i", "c", "k",
        "e", "r" >>,
     << "h", "t", "t", "p", "s", ":", "/", "/", "a", "p", "i", ".", "c", "o",
        "i", "n", "b", "a", "s", "e", ".", "c", "o", "m", "/", "v", "2", "/",
        "e", "x", "c", "h", "a", "n", "g", "e", "-", "r", "a", "t", "e", "s",
        "?", "c", "u", "r", "r", "e", "n", "c", "y", "=", "B", "T", "C" >> >>

\* A slip of line 11: the default is the first Bitcoin source.
DEFAULT_API_coindesk == BACKUP_APIS[1]

\* DEFAULT_API = "https://api.exchangerate-api.com/v4/latest/USD"
DEFAULT_API ==
  << "h", "t", "t", "p", "s", ":", "/", "/", "a", "p", "i", ".", "e", "x",
     "c", "h", "a", "n", "g", "e", "r", "a", "t", "e", "-", "a", "p", "i",
     ".", "c", "o", "m", "/", "v", "4", "/", "l", "a", "t", "e", "s", "t",
     "/", "U", "S", "D" >>

(* Python text operations *)

Whitespace == {" ", "\t"}

LowerCase ==
  << "a", "b", "c", "d", "e", "f", "g", "h", "i", "j", "k", "l", "m",
     "n", "o", "p", "q", "r", "s", "t", "u", "v", "w", "x", "y", "z" >>

UpperCase ==
  << "A", "B", "C", "D", "E", "F", "G", "H", "I", "J", "K", "L", "M",
     "N", "O", "P", "Q", "R", "S", "T", "U", "V", "W", "X", "Y", "Z" >>

\* sub in s
Contains(sub, s) ==
  \E i \in 0..(Len(s) - Len(sub)) : SubSeq(s, i + 1, i + Len(sub)) = sub

RECURSIVE LStrip(_)
LStrip(s) ==
  IF s # << >> /\ Head(s) \in Whitespace THEN LStrip(Tail(s)) ELSE s

RECURSIVE RStrip(_)
RStrip(s) ==
  IF s # << >> /\ s[Len(s)] \in Whitespace
    THEN RStrip(SubSeq(s, 1, Len(s) - 1))
    ELSE s

\* s.strip()
Strip(s) == RStrip(LStrip(s))

UpperChar(c) ==
  IF \E i \in 1..Len(LowerCase) : LowerCase[i] = c
    THEN UpperCase[CHOOSE i \in 1..Len(LowerCase) : LowerCase[i] = c]
    ELSE c

\* s.upper()
RECURSIVE Upper(_)
Upper(s) ==
  IF s = << >> THEN << >> ELSE << UpperChar(Head(s)) >> \o Upper(Tail(s))

\* s.split(",")
RECURSIVE Split(_)
Split(s) ==
  IF \E i \in 1..Len(s) : s[i] = ","
    THEN LET i == CHOOSE j \in 1..Len(s) :
                    s[j] = "," /\ \A h \in 1..(j - 1) : s[h] # ","
         IN  << SubSeq(s, 1, i - 1) >> \o Split(SubSeq(s, i + 1, Len(s)))
    ELSE << s >>

\* the characters of s as one string
RECURSIVE Text(_)
Text(s) == IF s = << >> THEN "" ELSE Head(s) \o Text(Tail(s))

(* Python objects *)

PyStr(text) == [t |-> "str", s |-> text, m |-> << >>]
PyNum(text) == [t |-> "num", s |-> text, m |-> << >>]
PyBool(text) == [t |-> "bool", s |-> text, m |-> << >>]
PyList(text) == [t |-> "list", s |-> text, m |-> << >>]
PyNone == [t |-> "null", s |-> "None", m |-> << >>]
PyDict(items) == [t |-> "obj", s |-> "", m |-> items]
Item(key, value) == [k |-> key, v |-> value]

Keys(d) == {d.m[i].k : i \in 1..Len(d.m)}
Lookup(d, key) == d.m[CHOOSE i \in 1..Len(d.m) : d.m[i].k = key].v

\* d[key] = value on the items of a dict: a present key keeps its position
DictSet(items, key, value) ==
  IF \E i \in 1..Len(items) : items[i].k = key
    THEN [i \in 1..Len(items) |->
            IF items[i].k = key THEN Item(key, value) ELSE items[i]]
    ELSE Append(items, Item(key, value))

\* bool(v), the test of "if data:" and "if prices:"
Truthy(v) ==
  CASE v.t = "obj" -> Len(v.m) > 0
    [] v.t = "str" -> v.s # ""
    [] v.t = "num" -> v.s \notin {"0", "0.0", "-0.0"}
    [] v.t = "bool" -> v.s = "True"
    [] v.t = "list" -> v.s # "[]"
    [] OTHER -> FALSE

\* repr(v) and str(v)
RECURSIVE Repr(_)
RECURSIVE ReprItems(_)
ReprItems(items) ==
  IF items = << >> THEN ""
  ELSE "'" \o Text(Head(items).k) \o "': " \o Repr(Head(items).v)
         \o (IF Len(items) > 1 THEN ", " ELSE "") \o ReprItems(Tail(items))
Repr(v) ==
  CASE v.t = "obj" -> "{" \o ReprItems(v.m) \o "}"
    [] v.t = "str" -> "'" \o v.s \o "'"
    [] OTHER -> v.s

Str(v) == IF v.t = "str" THEN v ELSE PyStr(Repr(v))

\* The outcome of evaluating an expression: its value, or the exception raised
Ok(v) == [exc |-> "", val |-> v]
Raise(e) == [exc |-> e, val |-> PyNone]

\* v.get(key, default)
Get(v, key, default) ==
  IF v.t # "obj" THEN Raise("AttributeError")
  ELSE Ok(IF key \in Keys(v) THEN Lookup(v, key) ELSE default)

\* v.items()
Items(v) == IF v.t # "obj" THEN Raise("AttributeError") ELSE Ok(v)

\* v[key] for a str key
GetItem(v, key) ==
  IF v.t # "obj" THEN Raise("TypeError")
  ELSE IF key \in Keys(v) THEN Ok(Lookup(v, key)) ELSE Raise("KeyError")

(* Dictionary keys and substrings named in the source *)

Key_bpi == << "b", "p", "i" >>
Key_rate == << "r", "a", "t", "e" >>
Key_bitcoin == << "b", "i", "t", "c", "o", "i", "n" >>
Key_last == << "l", "a", "s", "t" >>
Key_data == << "d", "a", "t", "a" >>
Key_rates == << "r", "a", "t", "e", "s" >>
Key_BTC == << "B", "T", "C" >>

Tag_coindesk == << "c", "o", "i", "n", "d", "e", "s", "k" >>
Tag_coingecko == << "c", "o", "i", "n", "g", "e", "c", "k", "o" >>
Tag_blockchain == << "b", "l", "o", "c", "k", "c", "h", "a", "i", "n" >>
Tag_coinbase == << "c", "o", "i", "n", "b", "a", "s", "e" >>

(* parse_response, lines 47-61 *)

\* One item of a dict comprehension: the exception its evaluation raises, or
\* the key and value it contributes and whether its "if" clause keeps it.
Entry(e, key, value, keep) == [exc |-> e, k |-> key, v |-> value, keep |-> keep]

\* line 51:  curr: info["rate"]
coindesk_entry(curr, info) ==
  LET r == GetItem(info, Key_rate) IN Entry(r.exc, curr, r.val, TRUE)

\* line 53:  curr.upper(): str(price)
coingecko_entry(curr, price) == Entry("", Upper(curr), Str(price), TRUE)

\* line 55:  curr: str(info["last"])
blockchain_entry(curr, info) ==
  LET r == GetItem(info, Key_last) IN Entry(r.exc, curr, Str(r.val), TRUE)

\* A slip of lines 57-58: the "if" clause of the comprehension is lost.
coinbase_entry_unfiltered(curr, rate) == Entry("", curr, Str(rate), TRUE)

\* lines 57-58:  curr: str(rate) ... if curr != "BTC"
coinbase_entry(curr, rate) == Entry("", curr, Str(rate), curr # Key_BTC)

\* The schema rule of a source: the first of the four substrings found in it
SchemaOf(source) ==
  CASE Contains(Tag_coindesk, source) -> "coindesk"
    [] Contains(Tag_coingecko, source) -> "coingecko"
    [] Contains(Tag_blockchain, source) -> "blockchain"
    [] Contains(Tag_coinbase, source) -> "coinbase"
    [] OTHER -> "unknown"

EntryOf(rule, curr, x) ==
  CASE rule = "coindesk" -> coindesk_entry(curr, x)
    [] rule = "coingecko" -> coingecko_entry(curr, x)
    [] rule = "blockchain" -> blockchain_entry(curr, x)
    [] OTHER -> coinbase_entry(curr, x)

\* {key: value for curr, x in items if keep}, built item by item in order;
\* the first item that raises ends the comprehension.
RECURSIVE Comprehension(_, _, _)
Comprehension(rule, items, acc) ==
  IF items = << >> THEN Ok(PyDict(acc))
  ELSE LET e == EntryOf(rule, Head(items).k, Head(items).v)
       IN  IF e.exc # "" THEN Raise(e.exc)
           ELSE Comprehension(rule, Tail(items),
                              IF e.keep THEN DictSet(acc, e.k, e.v) ELSE acc)

\* x.items() of an evaluated x, then the comprehension over it
OverItems(rule, x) ==
  IF x.exc # "" THEN x
  ELSE LET it == Items(x.val)
       IN  IF it.exc # "" THEN it ELSE Comprehension(rule, it.val.m, << >>)

\* The try block, lines 50-58.  No branch taken: control leaves the if
\* statement without a return.
parse_try(data, source) ==
  LET rule == SchemaOf(source)
      EmptyDict == PyDict(<< >>)
  IN  CASE rule = "coindesk" -> OverItems(rule, Get(data, Key_bpi, EmptyDict))
        [] rule = "coingecko" ->
             OverItems(rule, Get(data, Key_bitcoin, EmptyDict))
        [] rule = "blockchain" -> OverItems(rule, Ok(data))
        [] rule = "coinbase" ->
             LET d == Get(data, Key_data, EmptyDict)
             IN  OverItems(rule, IF d.exc # "" THEN d
                                 ELSE Get(d.val, Key_rates, EmptyDict))
        [] OTHER -> Ok(PyNone)

\* A slip of lines 50-61: an unrecognized source is read by the last rule.
parse_response_default_rule(data, source) ==
  LET r == IF SchemaOf(source) = "unknown"
             THEN parse_try(data, Tag_coinbase) ELSE parse_try(data, source)
  IN  IF r.exc \in {"KeyError", "AttributeError"}
        THEN [exc |-> "", val |-> PyNone, err |-> r.exc]
        ELSE [exc |-> r.exc, val |-> r.val, err |-> ""]

\* parse_response(data, source): exc is the exception that leaves the
\* function ("" for none), val the value returned, err the exception the
\* handler of line 59 reported on stderr ("" for none).
parse_response(data, source) ==
  LET r == parse_try(data, source)
  IN  IF r.exc \in {"KeyError", "AttributeError"}
        THEN [exc |-> "", val |-> PyNone, err |-> r.exc]
        ELSE [exc |-> r.exc, val |-> r.val, err |-> ""]

(* fetch_data, lines 37-45 *)

\* What the network answers to one GET: conn is the exception requests.get
\* raises ("" for none), status the HTTP status, decodes whether the body is
\* JSON, body the object it decodes to.
Response(conn, status, decodes, body) ==
  [conn |-> conn, status |-> status, decodes |-> decodes, body |-> body]

Scheme_http == << "h", "t", "t", "p", ":", "/", "/" >>
Scheme_https == << "h", "t", "t", "p", "s", ":", "/", "/" >>

StartsWith(s, prefix) ==
  Len(s) >= Len(prefix) /\ SubSeq(s, 1, Len(prefix)) = prefix

\* The classes of requests.exceptions the model raises; all of them derive
\* from RequestException (JSONDecodeError since requests 2.27).
RequestException ==
  {"Timeout", "ConnectionError", "HTTPError", "JSONDecodeError",
   "MissingSchema"}

\* The try block, lines 40-42: get, raise_for_status, json
fetch_try(url, net) ==
  IF ~(StartsWith(url, Scheme_http) \/ StartsWith(url, Scheme_https))
    THEN Raise("MissingSchema")
  ELSE IF net.conn # "" THEN Raise(net.conn)
  ELSE IF net.status >= 400 /\ net.status < 600 THEN Raise("HTTPError")
  ELSE IF ~net.decodes THEN Raise("JSONDecodeError")
  ELSE Ok(net.body)

\* A slip of line 43: the handler names the connection errors only.
fetch_data_connection_only(url, net) ==
  LET r == fetch_try(url, net)
  IN  IF r.exc \in {"Timeout", "ConnectionError"}
        THEN [exc |-> "", val |-> PyNone, err |-> r.exc]
        ELSE [exc |-> r.exc, val |-> r.val, err |-> ""]

\* fetch_data(url): exc, val and err as for parse_response
fetch_data(url, net) ==
  LET r == fetch_try(url, net)
  IN  IF r.exc \in RequestException
        THEN [exc |-> "", val |-> PyNone, err |-> r.exc]
        ELSE [exc |-> r.exc, val |-> r.val, err |-> ""]

(* format_price, lines 63-71: only whether it raises.  price.replace is *)
(* outside the try's except ValueError reach for a price that is no str. *)
format_price_exc(currency, price) ==
  IF price.t # "str" THEN "AttributeError" ELSE ""

(* get_user_input, lines 76-79 *)
get_user_input(typed, default) ==
  LET user_input == Strip(typed)
  IN  IF user_input # << >> THEN user_input ELSE default

(* select_currencies, lines 81-98: one pass of the while loop *)

RECURSIVE StripAll(_)
StripAll(parts) ==
  IF parts = << >> THEN << >>
  ELSE << Strip(Head(parts)) >> \o StripAll(Tail(parts))

RECURSIVE NotIn(_, _)
NotIn(codes, available) ==
  IF codes = << >> THEN << >>
  ELSE (IF \E i \in 1..Len(available) : available[i] = Head(codes)
          THEN << >> ELSE << Head(codes) >>)
       \o NotIn(Tail(codes), available)

\* A slip of lines 94-97: a selection is accepted when any code is valid.
select_pass_any_valid(available, typed) ==
  LET selection == Upper(get_user_input(typed, << >>))
      selected == StripAll(Split(selection))
      invalid == NotIn(selected, available)
  IN  IF selection = << >>
        THEN [returns |-> TRUE, selected |-> available, invalid |-> << >>]
        ELSE [returns |-> Len(invalid) < Len(selected),
              selected |-> selected, invalid |-> invalid]

\* returns: whether the function returns in this pass; selected: the list
\* it returns; invalid: the codes it prints as invalid
select_pass(available, typed) ==
  LET selection == Upper(get_user_input(typed, << >>))
      selected == StripAll(Split(selection))
      invalid == NotIn(selected, available)
  IN  IF selection = << >>
        THEN [returns |-> TRUE, selected |-> available, invalid |-> << >>]
        ELSE [returns |-> invalid = << >>,
              selected |-> selected, invalid |-> invalid]

\* list(prices.keys())
KeyList(d) == [i \in 1..Len(d.m) |-> d.m[i].k]

\* line 155: {k: v for k, v in prices.items() if k in selected}
RECURSIVE FilterItems(_, _)
FilterItems(items, selected) ==
  IF items = << >> THEN << >>
  ELSE (IF \E i \in 1..Len(selected) : selected[i] = Head(items).k
          THEN << Head(items) >> ELSE << >>)
       \o FilterItems(Tail(items), selected)

(* Inputs: the documents the sources may answer and the text the user may *)
(* type.                                                                   *)

USD == << "U", "S", "D" >>
EUR == << "E", "U", "R" >>
GBP == << "G", "B", "P" >>
usd == << "u", "s", "d" >>
eur == << "e", "u", "r" >>

Dict1(k, v) == PyDict(<< Item(k, v) >>)
Dict2(k1, v1, k2, v2) == PyDict(<< Item(k1, v1), Item(k2, v2) >>)

\* data.rates objects of at most MaxRates entries, in every order
RateItems ==
  {Item(k, v) : k \in {USD, Key_BTC, EUR}, v \in {PyStr("0.5"), PyNum("2")}}

RatesLists ==
  {r \in UNION {[1..n -> RateItems] : n \in 0..MaxRates} :
     \A i, j \in 1..Len(r) : i # j => r[i].k # r[j].k}

CoinbaseDocs == {Dict1(Key_data, Dict1(Key_rates, PyDict(r))) : r \in RatesLists}

CoindeskDocs ==
  { Dict1(Key_bpi, Dict2(USD, Dict1(Key_rate, PyStr("97,123.45")),
                         GBP, Dict1(Key_rate, PyStr("76,000.1")))),
    Dict1(Key_bpi, Dict1(USD, Dict1(Key_rate, PyNum("97123.45")))),
    Dict1(Key_bpi, Dict1(usd, Dict1(Key_rate, PyStr("97,123.45")))),
    Dict1(Key_bpi, Dict1(USD, Dict1(Key_last, PyNum("97123.45")))),
    Dict1(Key_bpi, Dict1(USD, PyStr("97,123.45"))),
    Dict1(Key_bpi, PyList("[]")),
    Dict1(Key_bpi, PyDict(<< >>)) }

CoingeckoDocs ==
  { Dict1(Key_bitcoin, Dict2(usd, PyNum("97123.45"), eur, PyNum("90000"))),
    Dict1(Key_bitcoin, Dict2(usd, PyNum("1"), USD, PyNum("2"))),
    Dict1(Key_bitcoin, Dict1(usd, PyDict(<< >>))),
    Dict1(Key_bitcoin, PyNone) }

BlockchainDocs ==
  { Dict2(USD, Dict1(Key_last, PyNum("97123.45")),
          EUR, Dict1(Key_last, PyNum("90000.0"))),
    PyDict(<< Item(USD, Dict1(Key_last, PyNum("97123.45"))),
              Item(EUR, Dict1(Key_last, PyNum("90000.0"))),
              Item(GBP, Dict1(Key_last, PyNum("76000.1"))) >>),
    Dict2(USD, Dict1(Key_last, PyNum("1")), EUR, PyNum("5")),
    Dict2(EUR, PyDict(<< >>), USD, PyNum("5")),
    Dict2(EUR, PyNum("5"), USD, PyDict(<< >>)),
    Dict1(USD, Dict1(Key_rate, PyStr("1"))) }

OtherDocs ==
  { PyDict(<< >>), PyList("[]"), PyList("[1]"), PyStr(""), PyStr("ok"),
    PyNum("0"), PyNum("5"), PyBool("True"), PyBool("False"), PyNone,
    Dict1(Key_data, PyStr("x")),
    Dict1(Key_data, Dict1(Key_rates, PyNone)),
    Dict1(Key_data, Dict1(Key_bitcoin, PyStr("BTC"))),
    Dict1(<< "e", "r", "r", "o", "r" >>, PyStr("rate limited")) }

Docs ==
  CoinbaseDocs \cup CoindeskDocs \cup CoingeckoDocs \cup BlockchainDocs
    \cup OtherDocs

\* 404 and 500 are the statuses of the model for which raise_for_status
\* raises; 304 is one it lets pass
Statuses == {200, 304, 404, 500}
ErrorStatuses == {404, 500}

Responses ==
  {Response(c, 0, FALSE, PyNone) : c \in {"Timeout", "ConnectionError"}}
    \cup {Response("", s, FALSE, PyNone) : s \in Statuses}
    \cup {Response("", s, TRUE, d) : s \in Statuses, d \in Docs}

\* What the user may type at the URL prompt
UrlInputs ==
  { << >>, << " " >>, DEFAULT_API \o << " " >>, BACKUP_APIS[1],
    BACKUP_APIS[4],
    Scheme_http \o Tag_coinbase \o << "/" >> \o Tag_blockchain,
    Scheme_https \o << "x", ".", "i", "o" >>,
    << "b", "t", "c" >> }

\* What the user may type at the currency prompt
SelectionInputs ==
  { << >>, << " ", " " >>, usd, eur \o << ",", " " >> \o USD,
    usd \o << ",", " " >> \o eur,
    USD \o << "," >> \o << "X", "Y", "Z" >>,
    usd \o << ",", "," >> \o eur, << "," >>, << "b", "t", "c" >>,
    usd \o << "," >> \o usd, << " " >> \o GBP \o << " ", ",", "u", "s", "d" >> }

(* main, lines 122-164 *)

VARIABLES
  pc,              \* where main is
  api_url,         \* line 131
  attempt,         \* the loop counter of line 138
  data,            \* line 140
  prices,          \* lines 137 and 142
  selected,        \* line 154
  filtered_prices, \* line 155
  saved,           \* whether generate_report returned True
  exc,             \* the exception that ended main, "" for none
  diag,            \* what the last step wrote to stderr, "" for nothing
  cause,           \* history: why the network failed the last fetch, "" if
                   \* it did not
  typed_codes,     \* history: the last text typed at the currency prompt
  log,             \* history: per attempt, the URL fetched, and whether the
                   \* fetch succeeded with a document that normalizes to a
                   \* non-empty mapping
  prompts          \* history: the selections rejected so far

vars ==
  << pc, api_url, attempt, data, prices, selected, filtered_prices, saved,
     exc, diag, cause, typed_codes, log, prompts >>

\* line 138: [api_url] + BACKUP_APIS
Candidates(url) == << url >> \o BACKUP_APIS

\* What a normalization result is, in the words of the specification
NormKind(r) ==
  IF r.exc # "" THEN "raised"
  ELSE IF r.val.t # "obj" THEN "none"
  ELSE IF r.val.m = << >> THEN "empty" ELSE "map"

\* The fetch result r of a candidate is a document that normalizes to a
\* non-empty mapping
Succeeds(r, url) ==
  /\ r.exc = ""
  /\ r.err = ""
  /\ NormKind(parse_response(r.val, url)) = "map"

\* Why the GET of url answered by net fails, by the categories of the
\* specification; "" when it yields a document
FailureCause(url, net) ==
  IF ~(StartsWith(url, Scheme_http) \/ StartsWith(url, Scheme_https))
    THEN "invalid-url"
  ELSE IF net.conn = "Timeout" THEN "timeout"
  ELSE IF net.conn = "ConnectionError" THEN "connection"
  ELSE IF net.status \in ErrorStatuses THEN "http-status"
  ELSE IF ~net.decodes THEN "decode"
  ELSE ""

Init ==
  /\ pc = "start"
  /\ diag = ""
  /\ api_url = << >>
  /\ attempt = 0
  /\ data = PyNone
  /\ prices = PyNone
  /\ selected = << >>
  /\ filtered_prices = PyNone
  /\ saved = FALSE
  /\ exc = ""
  /\ cause = ""
  /\ typed_codes = << >>
  /\ log = << >>
  /\ prompts = 0

\* lines 126-129: check_internet (lines 29-35) and the exit without a route
CheckInternet(up) ==
  /\ pc = "start"
  /\ IF up
       THEN pc' = "ask_url" /\ diag' = ""
       ELSE pc' = "exit_no_internet" /\ diag' = "No internet connection"
  /\ UNCHANGED << api_url, attempt, data, prices, selected, filtered_prices,
                  saved, exc, cause, typed_codes, log, prompts >>

\* lines 131-137
AskUrl(typed) ==
  /\ pc = "ask_url"
  /\ api_url' = LET u == get_user_input(typed, << >>)
                IN  IF u # << >> THEN u ELSE DEFAULT_API
  /\ prices' = PyNone
  /\ attempt' = 1
  /\ pc' = "fetch"
  /\ diag' = ""
  /\ UNCHANGED << data, selected, filtered_prices, saved, exc, cause,
                  typed_codes, log, prompts >>

\* A slip of line 138: the loop starts over instead of moving on.
AfterAttemptRetry(n, url) == [pc |-> "fetch", attempt |-> n]

\* The for statement of line 138 after attempt n: the next candidate, or
\* the end of the loop
AfterAttempt(n, url) ==
  IF n < Len(Candidates(url))
    THEN [pc |-> "fetch", attempt |-> n + 1]
    ELSE [pc |-> "after_loop", attempt |-> n]

\* line 141: if data
DataUsable(d) == Truthy(d)

\* A slip of lines 143-144: the loop never breaks.
LoopBreaksNever(p) == FALSE

\* A slip of line 143: None is the only failure.
LoopBreaksOnDict(p) == p.t = "obj"

\* lines 143-144: if prices: break
LoopBreaks(p) == Truthy(p)

\* lines 139-141: one fetch
FetchStep(net) ==
  /\ pc = "fetch"
  /\ LET url == Candidates(api_url)[attempt]
         r == fetch_data(url, net)
     IN  /\ data' = r.val
         /\ log' = Append(log, [url |-> url, ok |-> Succeeds(r, url)])
         /\ diag' = r.err
         /\ cause' = FailureCause(url, net)
         /\ IF r.exc # ""
              THEN pc' = "crashed" /\ exc' = r.exc /\ UNCHANGED attempt
            ELSE IF DataUsable(r.val)
              THEN pc' = "parse" /\ UNCHANGED << attempt, exc >>
            ELSE /\ pc' = AfterAttempt(attempt, api_url).pc
                 /\ attempt' = AfterAttempt(attempt, api_url).attempt
                 /\ UNCHANGED exc
  /\ UNCHANGED << api_url, prices, selected, filtered_prices, saved,
                  typed_codes, prompts >>

\* lines 142-144: one normalization
ParseStep ==
  /\ pc = "parse"
  /\ LET url == Candidates(api_url)[attempt]
         r == parse_response(data, url)
     IN  /\ diag' = r.err
         /\ IF r.exc # ""
              THEN /\ pc' = "crashed"
                   /\ exc' = r.exc
                   /\ UNCHANGED << attempt, prices >>
            ELSE /\ prices' = r.val
                 /\ UNCHANGED exc
                 /\ IF LoopBreaks(r.val)
                      THEN pc' = "after_loop" /\ UNCHANGED attempt
                      ELSE /\ pc' = AfterAttempt(attempt, api_url).pc
                           /\ attempt' = AfterAttempt(attempt, api_url).attempt
  /\ UNCHANGED << api_url, data, selected, filtered_prices, saved, cause,
                  typed_codes, log, prompts >>

\* A slip of line 146: the failure branch is taken for None only.
NoPricesNoneOnly(p) == p.t = "null"

\* line 146: if not prices
NoPrices(p) == ~Truthy(p)

\* lines 146-152
AllFailed ==
  /\ pc = "after_loop"
  /\ NoPrices(prices)
  /\ pc' = "exit_all_failed"
  /\ diag' = "All API attempts failed"
  /\ UNCHANGED << api_url, attempt, data, prices, selected, filtered_prices,
                  saved, exc, cause, typed_codes, log, prompts >>

\* line 154, entering select_currencies (line 83)
EnterSelection ==
  /\ pc = "after_loop"
  /\ ~NoPrices(prices)
  /\ pc' = "select"
  /\ diag' = ""
  /\ UNCHANGED << api_url, attempt, data, prices, selected, filtered_prices,
                  saved, exc, cause, typed_codes, log, prompts >>

\* lines 84-98, and on return lines 155-159
SelectCurrencies(typed) ==
  /\ pc = "select"
  /\ LET r == select_pass(KeyList(prices), typed)
         kept == FilterItems(prices.m, r.selected)
     IN  IF r.returns
           THEN /\ selected' = r.selected
                /\ filtered_prices' = PyDict(kept)
                /\ IF \E i \in 1..Len(kept) :
                        format_price_exc(kept[i].k, kept[i].v) # ""
                     THEN pc' = "crashed" /\ exc' = "AttributeError"
                     ELSE pc' = "report" /\ UNCHANGED exc
                /\ UNCHANGED prompts
           ELSE /\ prompts < MaxPrompts
                /\ prompts' = prompts + 1
                /\ UNCHANGED << pc, selected, filtered_prices, exc >>
  /\ diag' = ""
  /\ typed_codes' = typed
  /\ UNCHANGED << api_url, attempt, data, prices, saved, cause, log >>

\* lines 161-164: generate_report (lines 103-117), whose open or write may
\* raise IOError
GenerateReport(written) ==
  /\ pc = "report"
  /\ saved' = written
  /\ diag' = IF written THEN "" ELSE "IOError"
  /\ pc' = "exit_done"
  /\ UNCHANGED << api_url, attempt, data, prices, selected, filtered_prices,
                  exc, cause, typed_codes, log, prompts >>

Next ==
  \/ \E up \in BOOLEAN : CheckInternet(up)
  \/ \E typed \in UrlInputs : AskUrl(typed)
  \/ \E net \in Responses : FetchStep(net)
  \/ ParseStep
  \/ AllFailed
  \/ EnterSelection
  \/ \E typed \in SelectionInputs : SelectCurrencies(typed)
  \/ \E written \in BOOLEAN : GenerateReport(written)

Spec == Init /\ [][Next]_vars

(* Properties *)

Range(s) == {s[i] : i \in 1..Len(s)}

IsMap(p) == p.t = "obj" /\ p.m # << >>

\* The URL of the candidate the loop is at
Url == Candidates(api_url)[attempt]

\* The step leaves the current candidate for the next one, or leaves the
\* loop after the last one
MovesOn ==
  \/ /\ attempt < Len(Candidates(api_url))
     /\ pc' = "fetch"
     /\ attempt' = attempt + 1
  \/ /\ attempt = Len(Candidates(api_url))
     /\ pc' = "after_loop"
     /\ attempt' = attempt

\* Success has been reported: main is in or past select_currencies
Reported ==
  \/ pc \in {"select", "report", "exit_done"}
  \/ pc = "crashed" /\ filtered_prices.t = "obj"

\* select_currencies has returned
Returned ==
  \/ pc \in {"report", "exit_done"}
  \/ pc = "crashed" /\ filtered_prices.t = "obj"

\* The source contains none of the four substrings
NoTag(source) ==
  /\ ~Contains(Tag_coindesk, source)
  /\ ~Contains(Tag_coingecko, source)
  /\ ~Contains(Tag_blockchain, source)
  /\ ~Contains(Tag_coinbase, source)

\* C1: once candidate k is the first whose fetch yields a document that
\* normalizes to a non-empty mapping, no later candidate is fetched or
\* normalized, the loop is left at k, and the prices main holds are exactly
\* the normalization of candidate k's document.
C1_FirstSuccessWins ==
  \A k \in 1..Len(log) :
    log[k].ok =>
      /\ \A j \in 1..(k - 1) : ~log[j].ok
      /\ Len(log) = k
      /\ attempt = k
      /\ log[k].url = Candidates(api_url)[k]
      /\ pc \notin {"fetch", "exit_all_failed"}
      /\ pc # "parse" =>
           /\ IsMap(prices)
           /\ prices = parse_response(data, log[k].url).val

C1_Witness == pc = "select" /\ Len(log) = 3 /\ log[3].ok

\* C2: when all five candidates have failed (no fetch yielded a document
\* that normalizes to a non-empty mapping, and nothing raised), main holds no
\* price mapping, is at or past the "All API attempts failed" branch, and
\* has neither selected currencies nor written a report.
C2_AllFailed ==
  ( /\ Len(log) = Len(Candidates(api_url))
    /\ \A k \in 1..Len(log) : ~log[k].ok
    /\ pc # "parse"
    /\ exc = "" )
  => /\ pc \in {"after_loop", "exit_all_failed"}
     /\ ~IsMap(prices)
     /\ selected = << >>
     /\ filtered_prices = PyNone
     /\ ~saved
     /\ pc = "exit_all_failed" => diag = "All API attempts failed"

C2_Witness ==
  /\ pc = "exit_all_failed"
  /\ Len(log) = Len(Candidates(api_url))
  /\ prices = PyDict(<< >>)

\* C3: whenever success has been reported the prices are a non-empty
\* mapping; and a normalization that yields None or an empty mapping makes
\* the loop move on to the next candidate (or end after the last).
C3_NonEmptyOnSuccess ==
  /\ [](Reported => IsMap(prices))
  /\ [][ ( /\ pc = "parse"
           /\ NormKind(parse_response(data, Url)) \in {"none", "empty"} )
         => (MovesOn /\ ~log[Len(log)].ok /\ ~IsMap(prices')) ]_vars

C3_Witness ==
  /\ pc = "fetch"
  /\ attempt = 2
  /\ Truthy(data)
  /\ prices = PyDict(<< >>)

\* C4 as stated: no URL is fetched more than once in a run.
C4_NoUrlFetchedTwice ==
  \A i, j \in 1..Len(log) : i # j => log[i].url # log[j].url

\* C4 as amended: the URLs fetched are, in order, a prefix of
\* [api_url] + BACKUP_APIS, so each position of the list is fetched at most
\* once; a URL is fetched twice only when the primary URL equals a backup
\* URL, as candidate 1 and at its backup position.
C4_SequentialPrefix ==
  /\ Len(log) <= Len(Candidates(api_url))
  /\ \A i \in 1..Len(log) : log[i].url = Candidates(api_url)[i]
  /\ pc \in {"fetch", "parse"} => attempt \in 1..Len(Candidates(api_url))
  /\ pc = "fetch" => Len(log) = attempt - 1
  /\ pc = "parse" => Len(log) = attempt
  /\ \A i, j \in 1..Len(log) :
       (i < j /\ log[i].url = log[j].url)
         => (i = 1 /\ BACKUP_APIS[j - 1] = api_url)

C4_Witness ==
  /\ Len(log) = Len(Candidates(api_url))
  /\ log[1].url = log[2].url

C6_ParseNeverRaises ==
  pc = "parse" =>
    LET r == parse_response(data, Url)
    IN  r.exc = "" /\ (r.val = PyNone \/ r.val.t = "obj")

\* C7: for a source that contains none of the four substrings the
\* normalization of any document is None, nothing is raised or written to
\* stderr, and the loop moves on to the next candidate.
C7_UnsupportedSourceSkipped ==
  [][ (pc = "parse" /\ NoTag(Url))
      => /\ prices' = PyNone
         /\ exc' = ""
         /\ diag' = ""
         /\ ~log[Len(log)].ok
         /\ MovesOn ]_vars

C7_Witness ==
  /\ pc = "fetch"
  /\ attempt = 2
  /\ Truthy(data)
  /\ NoTag(log[1].url)
  /\ prices = PyNone

\* C8: after a document whose data.rates has a BTC entry is normalized under
\* the coinbase rule, the prices have no key BTC, and have every other key
\* of data.rates, with the entry's value as a string.
C8_CoinbaseDropsBTC ==
  ( /\ Len(log) > 0
    /\ pc # "parse"
    /\ Truthy(data)
    /\ SchemaOf(log[Len(log)].url) = "coinbase"
    /\ Key_data \in Keys(data)
    /\ Lookup(data, Key_data).t = "obj"
    /\ Key_rates \in Keys(Lookup(data, Key_data))
    /\ Lookup(Lookup(data, Key_data), Key_rates).t = "obj"
    /\ Key_BTC \in Keys(Lookup(Lookup(data, Key_data), Key_rates)) )
  => LET rates == Lookup(Lookup(data, Key_data), Key_rates)
     IN  /\ prices.t = "obj"
         /\ Key_BTC \notin Keys(prices)
         /\ Keys(prices) = Keys(rates) \ {Key_BTC}
         /\ \A c \in Keys(prices) : Lookup(prices, c) = Str(Lookup(rates, c))

C8_Witness ==
  /\ pc = "select"
  /\ SchemaOf(log[Len(log)].url) = "coinbase"
  /\ Key_data \in Keys(data)
  /\ Keys(Lookup(Lookup(data, Key_data), Key_rates)) = {Key_BTC, USD}
  /\ Keys(prices) = {USD}

\* The codes of the last text typed at the currency prompt, upper-cased and
\* trimmed
TypedBlank == Strip(typed_codes) = << >>
TypedCodes == StripAll(Split(Upper(Strip(typed_codes))))

\* C9: while select_currencies has not returned nothing is selected, and a
\* re-prompt follows only a text with a code that is not available; when it
\* has returned, the text was blank and everything is selected, or all its
\* codes are available and they are the selection; the filtered prices are
\* exactly the selected entries of the prices.
C9_SelectionAllOrNothing ==
  /\ pc = "select" =>
       /\ selected = << >>
       /\ filtered_prices = PyNone
       /\ prompts > 0 =>
            /\ ~TypedBlank
            /\ \E c \in Range(TypedCodes) : c \notin Keys(prices)
  /\ Returned =>
       /\ IF TypedBlank THEN selected = KeyList(prices)
                        ELSE selected = TypedCodes
       /\ Range(selected) \subseteq Keys(prices)
       /\ filtered_prices.t = "obj"
       /\ Keys(filtered_prices) = Range(selected)
       /\ \A c \in Keys(filtered_prices) :
            Lookup(filtered_prices, c) = Lookup(prices, c)

C9_Witness ==
  /\ pc = "report"
  /\ Keys(prices) = {USD, EUR, GBP}
  /\ typed_codes = usd \o << ",", " " >> \o eur
  /\ Keys(filtered_prices) = {USD, EUR}

\* C10: with the default primary URL the first candidate never succeeds:
\* whatever it answers its normalization is None, so prices that are a
\* mapping come from a backup source after at least two fetches.
C10_DefaultNeverSucceeds ==
  (api_url = DEFAULT_API /\ Len(log) >= 1)
  => /\ ~log[1].ok
     /\ (Len(log) = 1 /\ pc # "parse") => prices = PyNone
     /\ IsMap(prices) =>
          /\ Len(log) >= 2
          /\ \E b \in 1..Len(BACKUP_APIS) :
               /\ log[Len(log)].url = BACKUP_APIS[b]
               /\ Len(log) = b + 1

C10_Witness ==
  /\ api_url = DEFAULT_API
  /\ pc = "select"
  /\ Len(log) = 2
  /\ Truthy(data)

====
